---- MODULE Spec2Model ----
(***************************************************************************)
(* diff-visualizer: the version-control adapter (GitService: getDiffFiles, *)
(* getCommitHistory with its commit-message reconstruction) and the        *)
(* message dispatcher (BranchDiffViewProvider) that posts their results.   *)
(*                                                                         *)
(* Text is a sequence of UTF-16 code units, each written as a one-item     *)
(* string; the three CJK marks the list heuristic looks for are the items  *)
(* "U+FF0C", "U+3002" and "U+3001".                                        *)
(***************************************************************************)
EXTENDS Integers, Sequences, FiniteSets, TLC

VARIABLES
  gitService,   \* BranchDiffViewProvider._gitService is set (a workspace folder is open)
  changes,      \* what `git diff --stat base target` has to report, one entry per path
  history,      \* the commits of the range base..target, newest first
  logPad,       \* white space around the text `git log` prints
  parts,        \* the argument of a direct call of shouldFormatAsList
  verdict,      \* the results of the calls made, in order
  handled,      \* number of requests the dispatcher has handled
  calls,        \* the git invocations of the handler that finished last
  posted,       \* the messages posted to the webview and not yet delivered, in order
  opened,       \* what the editor was last told to open
  sent,         \* the webview's messages whose handler has not finished, in order
  events,       \* how many times the user has acted on the page
  state,        \* main.js `state`
  saved,        \* what vscode.setState holds: nothing yet, or the last saved state
  dom           \* the elements of the page that main.js reads and writes

vars ==
  <<gitService, changes, history, logPad, parts, verdict, handled, calls, posted,
    opened, sent, events, state, saved, dom>>

\* The webview and its channel to the dispatcher.
webview == <<sent, events, state, saved, dom>>

-----------------------------------------------------------------------------
(* Bounds *)

MaxFiles == 2
MaxCount == 1
MaxCommits == 2
MaxRest == 2
MaxRequests == 1
MaxTreeFiles == 3
MaxInflight == 2
MaxActions == 2
MaxPosted == 1

-----------------------------------------------------------------------------
(* Text *)

Chars(s) == [i \in 1..Len(s) |-> SubSeq(s, i, i)]

Rep(c, n) == [i \in 1..n |-> c]

Min(S) == CHOOSE x \in S : \A y \in S : x <= y
Max(S) == CHOOSE x \in S : \A y \in S : x >= y

\* The positions of t, from `from` on, where pat occurs.
Occurrences(t, pat, from) ==
  { i \in from..(Len(t) - Len(pat) + 1) : SubSeq(t, i, i + Len(pat) - 1) = pat }

NL == <<"\n">>

\* String.prototype.trim strips white space and line terminators.
IsSpace(c) == c \in {" ", "\n", "\t", "\r"}

RECURSIVE trimStart(_)
trimStart(t) ==
  IF t # <<>> /\ IsSpace(Head(t)) THEN trimStart(Tail(t)) ELSE t

RECURSIVE trimEnd(_)
trimEnd(t) ==
  IF t # <<>> /\ IsSpace(t[Len(t)]) THEN trimEnd(SubSeq(t, 1, Len(t) - 1)) ELSE t

trim(t) == trimEnd(trimStart(t))

\* String.prototype.indexOf(pat, from), 1-based; 0 when pat does not occur.
indexOf(t, pat, from) ==
  LET hits == Occurrences(t, pat, from)
  IN IF hits = {} THEN 0 ELSE Min(hits)

\* String.prototype.lastIndexOf(pat), 1-based; 0 when pat does not occur.
lastIndexOf(t, pat) ==
  LET hits == Occurrences(t, pat, 1)
  IN IF hits = {} THEN 0 ELSE Max(hits)

includes(t, pat) == indexOf(t, pat, 1) # 0

startsWith(t, pat) == Len(t) >= Len(pat) /\ SubSeq(t, 1, Len(pat)) = pat

\* String.prototype.split with a non-empty separator.
RECURSIVE split(_, _)
split(t, sep) ==
  LET i == indexOf(t, sep, 1)
  IN IF i = 0 THEN <<t>>
     ELSE <<SubSeq(t, 1, i - 1)>> \o split(SubSeq(t, i + Len(sep), Len(t)), sep)

\* Array.prototype.join
RECURSIVE join(_, _)
join(ps, sep) ==
  IF ps = <<>> THEN <<>>
  ELSE IF Len(ps) = 1 THEN ps[1]
  ELSE ps[1] \o sep \o join(Tail(ps), sep)

RECURSIVE Sum(_)
Sum(ns) == IF ns = <<>> THEN 0 ELSE Head(ns) + Sum(Tail(ns))

-----------------------------------------------------------------------------
(* git diff --stat, as simple-git's diffSummary reports it *)

ARROW == Chars(" => ")

\* The paths of the compared trees.  A renamed path has the directory part
\* `prefix` and the trailing part `suffix` common to the old and the new name.
PlainPath(p) == [renamed |-> FALSE, prefix |-> <<>>, old |-> <<>>, new |-> Chars(p), suffix |-> <<>>]
RenamedPath(pre, o, n, suf) ==
  [renamed |-> TRUE, prefix |-> Chars(pre), old |-> Chars(o), new |-> Chars(n), suffix |-> Chars(suf)]

Paths ==
  << PlainPath("src/app.ts"),
     RenamedPath("", "old.txt", "new.txt", ""),
     RenamedPath("src/", "old.ts", "new.ts", ""),
     RenamedPath("", "lib", "pkg", "/index.ts"),
     RenamedPath("src/", "lib", "pkg", "/index.ts"),
     RenamedPath("src/", "", "pkg", "/index.ts"),
     RenamedPath("src/", "lib", "", "/index.ts") >>

\* git writes a rename as prefix{old => new}suffix, and as `old => new` when
\* the two names share neither a leading directory nor a trailing part.
Braced(p) == p.renamed /\ (p.prefix # <<>> \/ p.suffix # <<>>)

RawPath(p) ==
  IF ~p.renamed THEN p.new
  ELSE IF Braced(p) THEN p.prefix \o <<"{">> \o p.old \o ARROW \o p.new \o <<"}">> \o p.suffix
  ELSE p.old \o ARROW \o p.new

\* One entry of `changes`: the path (an index of Paths) and, for a text
\* file, its inserted and deleted line counts.
Changes ==
  [path : 1..Len(Paths), binary : {FALSE}, insertions : 0..MaxCount, deletions : 0..MaxCount]
    \cup [path : 1..Len(Paths), binary : {TRUE}, insertions : {0}, deletions : {0}]

\* git lists every changed path once, in path order: up to `most` entries.
ChangeLists(most) ==
  UNION { { s \in [1..n -> Changes] : \A i \in 1..(n - 1) : s[i].path < s[i + 1].path }
          : n \in 0..most }

\* DiffResultTextFile | DiffResultBinaryFile: a binary entry carries no
\* insertions and no deletions.
StatFile(c) ==
  IF c.binary
    THEN [file |-> RawPath(Paths[c.path]), before |-> 0, after |-> 0, binary |-> TRUE]
    ELSE [file |-> RawPath(Paths[c.path]), changes |-> c.insertions + c.deletions,
          insertions |-> c.insertions, deletions |-> c.deletions, binary |-> FALSE]

TextInsertions(c) == IF c.binary THEN 0 ELSE c.insertions
TextDeletions(c) == IF c.binary THEN 0 ELSE c.deletions

\* The summary line `N files changed, X insertions(+), Y deletions(-)` counts
\* the lines of the text entries.
diffSummary(cs) ==
  [files |-> [i \in 1..Len(cs) |-> StatFile(cs[i])],
   insertions |-> Sum([i \in 1..Len(cs) |-> TextInsertions(cs[i])]),
   deletions |-> Sum([i \in 1..Len(cs) |-> TextDeletions(cs[i])])]

-----------------------------------------------------------------------------
(* GitService.getDiffFiles *)

\* filePath.replace(/\{([^}]*) => ([^}]*)\}/g, (_, oldPart, newPart) => newPart):
\* a match starts at a '{', ends at the first '}' after it and needs ' => '
\* in between; the greedy oldPart runs to the last ' => ' before that '}'.
RECURSIVE parseRenamedPathFrom(_, _)
parseRenamedPathFrom(filePath, i) ==
  IF i > Len(filePath) THEN <<>>
  ELSE IF filePath[i] # "{" THEN <<filePath[i]>> \o parseRenamedPathFrom(filePath, i + 1)
  ELSE
    LET close == indexOf(filePath, <<"}">>, i + 1)
        arrow == IF close = 0 THEN 0
                 ELSE lastIndexOf(SubSeq(filePath, i + 1, close - 1), ARROW)
    IN IF arrow = 0
         THEN <<filePath[i]>> \o parseRenamedPathFrom(filePath, i + 1)
         ELSE SubSeq(filePath, i + arrow + Len(ARROW), close - 1)
                \o parseRenamedPathFrom(filePath, close + 1)

\* parseRenamedPath with the rename test left to a single ' => ' split.
parseRenamedPathKeepBraces(filePath) ==
  LET a == indexOf(filePath, ARROW, 1)
  IN IF a = 0 THEN filePath ELSE SubSeq(filePath, a + Len(ARROW), Len(filePath))

parseRenamedPath(filePath) == parseRenamedPathFrom(filePath, 1)

isRenamed(filePath) ==
  includes(filePath, <<"{">>) /\ includes(filePath, ARROW) /\ includes(filePath, <<"}">>)

Has(file, key) == key \in DOMAIN file

\* fileStatus with the insertion/deletion tests ahead of the rename test.
fileStatusCountsFirst(file) ==
  LET filePath == IF Has(file, "file") THEN file.file ELSE <<>>
  IN IF Has(file, "insertions") /\ file.insertions > 0
          /\ Has(file, "deletions") /\ file.deletions = 0 THEN "added"
     ELSE IF Has(file, "deletions") /\ file.deletions > 0
               /\ Has(file, "insertions") /\ file.insertions = 0 THEN "deleted"
     ELSE IF isRenamed(filePath) THEN "renamed"
     ELSE "modified"

\* fileStatus with the `=== 0` tests of the other count left out.
fileStatusNoZeroTest(file) ==
  LET filePath == IF Has(file, "file") THEN file.file ELSE <<>>
  IN IF isRenamed(filePath) THEN "renamed"
     ELSE IF Has(file, "insertions") /\ file.insertions > 0 THEN "added"
     ELSE IF Has(file, "deletions") /\ file.deletions > 0 THEN "deleted"
     ELSE "modified"

fileStatus(file) ==
  LET filePath == IF Has(file, "file") THEN file.file ELSE <<>>
  IN IF isRenamed(filePath) THEN "renamed"
     ELSE IF Has(file, "insertions") /\ file.insertions > 0
               /\ Has(file, "deletions") /\ file.deletions = 0 THEN "added"
     ELSE IF Has(file, "deletions") /\ file.deletions > 0
               /\ Has(file, "insertions") /\ file.insertions = 0 THEN "deleted"
     ELSE "modified"

filePathOf(file) ==
  LET filePath == IF Has(file, "file") THEN file.file ELSE <<>>
  IN IF isRenamed(filePath) THEN parseRenamedPath(filePath) ELSE filePath

\* fileAdditions reading the entry's `changes` count.
fileAdditionsChanges(file) == IF Has(file, "changes") THEN file.changes ELSE 0

fileAdditions(file) == IF Has(file, "insertions") THEN file.insertions ELSE 0

fileDeletions(file) == IF Has(file, "deletions") THEN file.deletions ELSE 0

DiffFile(file) ==
  [path |-> filePathOf(file),
   additions |-> fileAdditions(file),
   deletions |-> fileDeletions(file),
   status |-> fileStatus(file)]

getDiffFiles(summary) ==
  [files |-> [i \in 1..Len(summary.files) |-> DiffFile(summary.files[i])],
   totalAdditions |-> summary.insertions,
   totalDeletions |-> summary.deletions]

-----------------------------------------------------------------------------
(* git log base..target --format=%H%n%an%n%aI%n%s%n%b%n---COMMIT-SEPARATOR--- *)

SEPARATOR == Chars("---COMMIT-SEPARATOR---")
DASH == Chars(" - ")

FullwidthComma == "U+FF0C"
IdeographicFullStop == "U+3002"
IdeographicComma == "U+3001"

ListSubject == Chars("Fix bug - Update the documentation pages - Add tests for the parser module")
ListBody == Chars("Changes - Update the documentation pages - Add tests for the parser module")
MarkedBody ==
  Chars("notes - short item") \o <<IdeographicFullStop>>
    \o Chars(" - second one") \o <<FullwidthComma>> \o Chars("x")

\* The commit messages of the model: subject (%s) and body (%b).  git gives a
\* commit a body only when it has a subject.
Messages ==
  << [subject |-> <<>>, body |-> <<>>],
     [subject |-> Chars("chore: release"), body |-> Chars("v1.2.3")],
     [subject |-> Chars("Fix bug - Update docs - Add tests"), body |-> <<>>],
     [subject |-> ListSubject, body |-> <<>>],
     [subject |-> Chars("feat: parser"), body |-> ListBody],
     [subject |-> Chars("feat: parser"), body |-> ListBody \o NL \o Chars("Closes the ticket")],
     [subject |-> ListSubject, body |-> Chars("v1.2.3")],
     [subject |-> Chars("fix: typo"), body |-> <<>>],
     [subject |-> Chars("docs"), body |-> MarkedBody],
     [subject |-> Chars("style"),
      body |-> Chars("- first item is long enough now - second item is long enough too")],
     [subject |-> Chars("refactor"), body |-> Chars("part one") \o NL \o NL \o Chars("part two")],
     [subject |-> Chars("wip"), body |-> Chars("a - b")] >>

\* %H of the i-th commit of the range: 40 hexadecimal digits.
HashOf(i) == Rep(Chars("0123456789abcdef")[i + 1], 40)

CommitOf(i, m) ==
  [hash |-> HashOf(i), author |-> Chars("Ann Lee"),
   date |-> Chars("2024-01-02T03:04:05+00:00"),
   subject |-> Messages[m].subject, body |-> Messages[m].body]

\* The ranges of up to `most` commits.
Histories(most) ==
  UNION { { [i \in 1..n |-> CommitOf(i, ms[i])] : ms \in [1..n -> 1..Len(Messages)] }
          : n \in 0..most }

LogPads == { <<>>, NL, <<" ", "\n">> }

\* What git prints for one commit: the format, %b ending in a line break when
\* the body is not empty, and the line break that ends every entry.
LogEntry(c) ==
  c.hash \o NL \o c.author \o NL \o c.date \o NL \o c.subject \o NL
    \o (IF c.body = <<>> THEN <<>> ELSE c.body \o NL) \o NL \o SEPARATOR \o NL

RECURSIVE LogOutput(_)
LogOutput(h) == IF h = <<>> THEN <<>> ELSE LogEntry(Head(h)) \o LogOutput(Tail(h))

-----------------------------------------------------------------------------
(* GitService.getCommitHistory *)

NonBlank(part) == trim(part) # <<>>

HasListMark(t) ==
  \/ includes(t, <<FullwidthComma>>)
  \/ includes(t, <<IdeographicFullStop>>)
  \/ includes(t, <<IdeographicComma>>)

\* LooksLikeItem with only the content test (more than 5 characters).
LooksLikeItemShort(part) == Len(trim(part)) > 5

LooksLikeItem(part) ==
  LET trimmed == trim(part)
  IN Len(trimmed) > 10 /\ (HasListMark(trimmed) \/ Len(trimmed) > 20)

\* shouldFormatAsList with the title test written `>= 100`.
shouldFormatAsListOffByOne(ps) ==
  IF Len(ps) < 2 THEN FALSE
  ELSE IF Len(trim(ps[1])) >= 100 THEN FALSE
  ELSE IF ~(\A i \in 2..Len(ps) : Len(trim(ps[i])) > 5) THEN FALSE
  ELSE \A i \in 2..Len(ps) : LooksLikeItem(ps[i])

shouldFormatAsList(ps) ==
  IF Len(ps) < 2 THEN FALSE
  ELSE IF Len(trim(ps[1])) > 100 THEN FALSE
  ELSE IF ~(\A i \in 2..Len(ps) : Len(trim(ps[i])) > 5) THEN FALSE
  ELSE \A i \in 2..Len(ps) : LooksLikeItem(ps[i])

BULLET == Chars("- ")

\* bulleted without the startsWith('-') test.
bulletedAlways(part) == BULLET \o trim(part)

\* part => trimmed.startsWith('-') ? trimmed : `- ${trimmed}`
bulleted(part) ==
  LET trimmed == trim(part)
  IN IF startsWith(trimmed, <<"-">>) THEN trimmed ELSE BULLET \o trimmed

\* bodyMessage with every single-line body formatted as a list.
bodyMessageAlwaysList(subject, body) ==
  IF includes(body, NL) THEN subject \o NL \o body
  ELSE subject \o NL \o join([i \in 1..Len(SelectSeq(split(body, DASH), NonBlank)) |->
                               bulleted(SelectSeq(split(body, DASH), NonBlank)[i])], NL)

\* bodyMessage without the hasNewlines test.
bodyMessageNoNewlineTest(subject, body) ==
  LET bodyParts == SelectSeq(split(body, DASH), NonBlank)
  IN IF Len(bodyParts) > 1 /\ shouldFormatAsList(bodyParts)
       THEN subject \o NL \o join([i \in 1..Len(bodyParts) |-> bulleted(bodyParts[i])], NL)
       ELSE subject \o NL \o body

\* parts.map(bulleted)
bulletedAll(ps) == [i \in 1..Len(ps) |-> bulleted(ps[i])]

\* The message of a commit with a body.
bodyMessage(subject, body) ==
  IF includes(body, NL) THEN subject \o NL \o body
  ELSE LET bodyParts == SelectSeq(split(body, DASH), NonBlank)
       IN IF Len(bodyParts) > 1 /\ shouldFormatAsList(bodyParts)
            THEN subject \o NL \o join(bulletedAll(bodyParts), NL)
            ELSE subject \o NL \o body

\* The message of a commit without a body.
subjectMessage(subject) ==
  LET subjectParts == SelectSeq(split(subject, DASH), NonBlank)
  IN IF Len(subjectParts) > 1 /\ shouldFormatAsList(subjectParts)
       THEN subjectParts[1] \o NL \o join(bulletedAll(Tail(subjectParts)), NL)
       ELSE subject

commitMessage(subject, body) ==
  IF body # <<>> THEN bodyMessage(subject, body) ELSE subjectMessage(subject)

\* new Date(dateStr) read back with the local getters, on a host whose zone
\* is the offset %aI printed.
formatDate(dateStr) ==
  IF Len(dateStr) = 25 /\ dateStr[11] = "T"
    THEN SubSeq(dateStr, 1, 10) \o <<" ">> \o SubSeq(dateStr, 12, 19)
    ELSE Chars("NaN-NaN-NaN NaN:NaN:NaN")

substring(t, from, to) == SubSeq(t, from + 1, IF to < Len(t) THEN to ELSE Len(t))

commitOfLines(lines) ==
  LET hash == trim(lines[1])
      author == trim(lines[2])
      date == trim(lines[3])
      subject == trim(lines[4])
      body == trim(join(SubSeq(lines, 5, Len(lines)), NL))
  IN [hash |-> hash,
      shortHash |-> substring(hash, 0, 7),
      message |-> trim(commitMessage(subject, body)),
      author |-> author,
      date |-> formatDate(date),
      parents |-> <<>>]

RECURSIVE commitsOfBlocks(_)
commitsOfBlocks(blocks) ==
  IF blocks = <<>> THEN <<>>
  ELSE LET lines == split(trim(Head(blocks)), NL)
       IN (IF Len(lines) < 4 THEN <<>> ELSE <<commitOfLines(lines)>>)
            \o commitsOfBlocks(Tail(blocks))

getCommitHistory(result) ==
  IF trim(result) = <<>> THEN <<>>
  ELSE commitsOfBlocks(split(trim(result), SEPARATOR))

-----------------------------------------------------------------------------
(* main.js: the file tree *)

\* A Set in insertion order, as Array.from reads it out.
SetHas(s, x) == \E i \in 1..Len(s) : s[i] = x

SetAdd(s, x) == IF SetHas(s, x) THEN s ELSE Append(s, x)

SetDelete(s, x) == SelectSeq(s, LAMBDA y : y # x)

\* new Set(array)
RECURSIVE NewSet(_)
NewSet(array) ==
  IF array = <<>> THEN <<>>
  ELSE SetAdd(NewSet(SubSeq(array, 1, Len(array) - 1)), array[Len(array)])

\* Array.from(set)
ArrayFrom(s) == [i \in 1..Len(s) |-> s[i]]

SLASH == <<"/">>

\* The characters of the names, in collation order: for names made of
\* these, localeCompare orders by the first differing character, a proper
\* prefix first, in every locale.
Collation == Chars(".0123456789abcdefghijklmnopqrstuvwxyz")

Rank(c) == CHOOSE i \in 1..Len(Collation) : Collation[i] = c

RECURSIVE localeCompare(_, _)
localeCompare(a, b) ==
  IF a = <<>> THEN (IF b = <<>> THEN 0 ELSE -1)
  ELSE IF b = <<>> THEN 1
  ELSE IF Rank(Head(a)) < Rank(Head(b)) THEN -1
  ELSE IF Rank(Head(a)) > Rank(Head(b)) THEN 1
  ELSE localeCompare(Tail(a), Tail(b))

\* A tree node is an object: a function from its own keys to items.
EmptyObject == [k \in {} |-> <<>>]

FolderItem(children) == [type |-> "folder", children |-> children]

FileItem(file) == [type |-> "file", data |-> file]

\* The inner forEach of buildFileTree over parts[from..], starting at the
\* object `current`: the object as assigned to, or threw when `current` has
\* become undefined (the children of a file item) and is indexed.
RECURSIVE insertParts(_, _, _)
insertParts(current, ps, file) ==
  LET part == Head(ps)
  IN IF Len(ps) = 1
       THEN [threw |-> FALSE, node |-> (part :> FileItem(file)) @@ current]
     ELSE IF part \notin DOMAIN current
       THEN LET below == insertParts(EmptyObject, Tail(ps), file)
            IN [threw |-> below.threw,
                node |-> (part :> FolderItem(below.node)) @@ current]
     ELSE IF current[part].type = "file"
       THEN [threw |-> TRUE, node |-> current]
     ELSE LET below == insertParts(current[part].children, Tail(ps), file)
          IN [threw |-> below.threw,
              node |-> (part :> FolderItem(below.node)) @@ current]

\* buildFileTree: the tree, or threw (a TypeError leaves the function).
RECURSIVE buildFileTree(_)
buildFileTree(files) ==
  IF files = <<>> THEN [threw |-> FALSE, node |-> EmptyObject]
  ELSE LET before == buildFileTree(SubSeq(files, 1, Len(files) - 1))
           file == files[Len(files)]
       IN IF before.threw THEN before
          ELSE insertParts(before.node, split(file.path, SLASH), file)

\* collectAllFolders: every proper leading part of every path.
RECURSIVE collectAllFolders(_)
collectAllFolders(files) ==
  IF files = <<>> THEN <<>>
  ELSE LET before == collectAllFolders(SubSeq(files, 1, Len(files) - 1))
           ps == split(files[Len(files)].path, SLASH)
           AddUpTo[i \in 0..(Len(ps) - 1)] ==
             IF i = 0 THEN before ELSE SetAdd(AddUpTo[i - 1], join(SubSeq(ps, 1, i), SLASH))
       IN AddUpTo[Len(ps) - 1]

\* The comparison function renderTreeNode sorts the keys of a node with.
compareKeys(node, a, b) ==
  LET aIsFolder == node[a].type = "folder"
      bIsFolder == node[b].type = "folder"
  IN IF aIsFolder # bIsFolder THEN (IF aIsFolder THEN -1 ELSE 1)
     ELSE localeCompare(a, b)

\* Object.keys(node).sort(...): the keys are distinct, so the order is total.
RECURSIVE sortedKeys(_, _)
sortedKeys(node, keys) ==
  IF keys = {} THEN <<>>
  ELSE LET first == CHOOSE k \in keys : \A o \in keys \ {k} : compareKeys(node, k, o) < 0
       IN <<first>> \o sortedKeys(node, keys \ {first})

\* One .tree-item element.  `parent` is the folder whose .folder-children
\* element holds it (empty at the top), `expanded` the class of a folder's
\* own .folder-children, `button` whether a file row has an .open-file-btn.
FolderRow(fullPath, key, depth, parent, expanded) ==
  [type |-> "folder", path |-> fullPath, name |-> key, depth |-> depth,
   parent |-> parent, expanded |-> expanded, button |-> FALSE, status |-> ""]

FileRow(item, key, depth, parent) ==
  [type |-> "file", path |-> item.data.path, name |-> key, depth |-> depth,
   parent |-> parent, expanded |-> FALSE, button |-> item.data.status # "deleted",
   status |-> item.data.status]

\* renderTreeNode: the elements appended, in document order.
RECURSIVE renderTreeNode(_, _, _, _)
renderTreeNode(node, path, depth, expandedFolders) ==
  LET keys == sortedKeys(node, DOMAIN node)
      fullPath(key) == IF path # <<>> THEN path \o SLASH \o key ELSE key
      rowsOf(key) ==
        IF node[key].type = "folder"
          THEN <<FolderRow(fullPath(key), key, depth, path, SetHas(expandedFolders, fullPath(key)))>>
                 \o renderTreeNode(node[key].children, fullPath(key), depth + 1, expandedFolders)
          ELSE <<FileRow(node[key], key, depth, path)>>
      Upto[i \in 0..Len(keys)] == IF i = 0 THEN <<>> ELSE Upto[i - 1] \o rowsOf(keys[i])
  IN Upto[Len(keys)]

-----------------------------------------------------------------------------
(* main.js: the page, as a value w = [state, saved, dom, out, threw] that   *)
(* each function takes and returns.  `out` collects the messages given to   *)
(* vscode.postMessage and `threw` is set once an exception has left a call. *)

InitialState ==
  [baseBranch |-> "", targetBranch |-> "",
   branches |-> [local |-> <<>>, remote |-> <<>>, current |-> ""],
   diffFiles |-> <<>>, commits |-> <<>>, expandedFolders |-> <<>>,
   totalStats |-> [additions |-> 0, deletions |-> 0]]

\* What #fileTree and #commitList hold: the elements rendered (`kind` is
\* "items"), or one placeholder element.
Content(kind, items) == [kind |-> kind, items |-> items]

\* The page as loaded, before init runs.
InitialDom ==
  [baseBranch |-> [options |-> <<"">>, value |-> "", title |-> ""],
   targetBranch |-> [options |-> <<"">>, value |-> "", title |-> ""],
   fileTree |-> Content("initial", <<>>),
   commitList |-> Content("initial", <<>>),
   commitSearch |-> <<>>,
   changesCount |-> <<>>,
   totalAdditions |-> <<>>,
   totalDeletions |-> <<>>]

\* vscode.getState() of a first load is undefined; a later load gets the
\* one saved value.
Page(previous) ==
  [state |-> IF previous = <<>> THEN InitialState
             ELSE [previous[1] EXCEPT !.expandedFolders = NewSet(@)],
   saved |-> previous, dom |-> InitialDom, out |-> <<>>, threw |-> FALSE]

saveState(w) ==
  [w EXCEPT !.saved = <<[w.state EXCEPT !.expandedFolders = ArrayFrom(@)]>>]

postMessage(w, message) == [w EXCEPT !.out = Append(@, message)]

\* A number in a template literal.
RECURSIVE decimal(_)
decimal(n) ==
  IF n < 10 THEN <<Chars("0123456789")[n + 1]>>
  ELSE decimal(n \div 10) \o <<Chars("0123456789")[(n % 10) + 1]>>

updateSelectTitle(select) ==
  [select EXCEPT !.title = IF select.value # "" THEN select.value ELSE "Select branch"]

\* select.value = v: an option with that value becomes the selected one;
\* without such an option none is selected and the value reads ''.
setValue(select, v) ==
  [select EXCEPT !.value = IF \E i \in 1..Len(select.options) : select.options[i] = v
                            THEN v ELSE ""]

loadDiffWithoutHistory(w) ==
  LET shown == [w EXCEPT !.dom.fileTree = Content("loading", <<>>),
                         !.dom.commitList = Content("loading", <<>>)]
  IN postMessage(shown, [command |-> "getDiff",
                         baseBranch |-> w.state.baseBranch,
                         targetBranch |-> w.state.targetBranch])

loadDiff(w) ==
  LET shown == [w EXCEPT !.dom.fileTree = Content("loading", <<>>),
                         !.dom.commitList = Content("loading", <<>>)]
      first == postMessage(shown, [command |-> "getDiff",
                                   baseBranch |-> w.state.baseBranch,
                                   targetBranch |-> w.state.targetBranch])
  IN postMessage(first, [command |-> "getCommitHistory",
                         baseBranch |-> w.state.baseBranch,
                         targetBranch |-> w.state.targetBranch])

onBranchChange(w) ==
  LET set == [w EXCEPT !.state.baseBranch = w.dom.baseBranch.value,
                       !.state.targetBranch = w.dom.targetBranch.value,
                       !.dom.baseBranch = updateSelectTitle(@),
                       !.dom.targetBranch = updateSelectTitle(@)]
      kept == saveState(set)
  IN IF kept.state.baseBranch # "" /\ kept.state.targetBranch # "" THEN loadDiff(kept)
     ELSE kept

onRefresh(w) ==
  LET asked == postMessage(w, [command |-> "refresh"])
  IN IF w.state.baseBranch # "" /\ w.state.targetBranch # "" THEN loadDiff(asked)
     ELSE asked

UpperCase == Chars("ABCDEFGHIJKLMNOPQRSTUVWXYZ")
LowerCase == Chars("abcdefghijklmnopqrstuvwxyz")

toLowerCase(t) ==
  [i \in 1..Len(t) |->
     IF \E j \in 1..26 : UpperCase[j] = t[i]
       THEN LowerCase[CHOOSE j \in 1..26 : UpperCase[j] = t[i]]
       ELSE t[i]]

renderCommits(w, commits) ==
  IF Len(commits) = 0 THEN [w EXCEPT !.dom.commitList = Content("empty-state", <<>>)]
  ELSE [w EXCEPT !.dom.commitList =
          Content("items",
                  [i \in 1..Len(commits) |->
                     [hash |-> commits[i].hash, shortHash |-> commits[i].shortHash,
                      date |-> commits[i].date, author |-> commits[i].author,
                      message |-> commits[i].message]])]

matchesQueryInMessage(c, query) == includes(toLowerCase(c.message), query)

\* The filter of onCommitSearch.
matchesQuery(c, query) ==
  \/ includes(toLowerCase(c.message), query)
  \/ includes(toLowerCase(c.author), query)
  \/ includes(toLowerCase(c.shortHash), query)

\* onCommitSearch; e.target.value is what the search box holds.
onCommitSearch(w) ==
  LET query == toLowerCase(w.dom.commitSearch)
  IN renderCommits(w, SelectSeq(w.state.commits, LAMBDA c : matchesQuery(c, query)))

\* createOptions: the first option is 'Select branch' with the value ''; the
\* option equal to selectedValue is the selected one.
createOptions(branches, selectedValue) ==
  updateSelectTitle(setValue([options |-> <<"">> \o branches.local \o branches.remote,
                              value |-> "", title |-> ""],
                             selectedValue))

populateBranchSelects(w, branches, skipLoadDiff) ==
  LET has(b) == \E i \in 1..Len(branches.local) : branches.local[i] = b
      base0 == createOptions(branches, IF w.state.baseBranch # "" THEN w.state.baseBranch
                                       ELSE "master")
      target0 == createOptions(branches, IF w.state.targetBranch # "" THEN w.state.targetBranch
                                         ELSE branches.current)
      base == IF w.state.baseBranch = ""
                THEN setValue(base0, IF has("master") THEN "master"
                                     ELSE IF has("main") THEN "main" ELSE "")
                ELSE base0
      target == IF w.state.targetBranch = "" THEN setValue(target0, branches.current)
                ELSE target0
      set == [w EXCEPT !.state.branches = branches,
                       !.state.baseBranch = base.value,
                       !.state.targetBranch = target.value,
                       !.dom.baseBranch = base,
                       !.dom.targetBranch = target]
      kept == saveState(set)
  IN IF ~skipLoadDiff /\ kept.state.baseBranch # "" /\ kept.state.targetBranch # ""
       THEN loadDiff(kept)
       ELSE kept

renderFileTree(w, files, totalStats, isRestore) ==
  LET stored == IF isRestore THEN w
                ELSE [w EXCEPT !.state.diffFiles = files, !.state.totalStats = totalStats]
      counted == [stored EXCEPT
                    !.dom.changesCount = decimal(Len(files)) \o Chars(" Changes"),
                    !.dom.totalAdditions = <<"+">> \o decimal(totalStats.additions),
                    !.dom.totalDeletions = <<"-">> \o decimal(totalStats.deletions)]
      opened0 == IF ~isRestore /\ Len(counted.state.expandedFolders) = 0
                   THEN [counted EXCEPT !.state.expandedFolders = collectAllFolders(files)]
                   ELSE counted
      kept == IF isRestore THEN opened0 ELSE saveState(opened0)
      tree == buildFileTree(files)
  IN IF Len(files) = 0
       THEN LET none == [counted EXCEPT !.dom.fileTree = Content("empty-state", <<>>)]
            IN IF isRestore THEN none ELSE saveState(none)
     ELSE IF tree.threw THEN [kept EXCEPT !.threw = TRUE]
     ELSE [kept EXCEPT !.dom.fileTree =
             Content("items", renderTreeNode(tree.node, <<>>, 0, kept.state.expandedFolders))]

onMessageKeepsFirstDiff(w, message) ==
  CASE message.command = "branches" -> populateBranchSelects(w, message.data, FALSE)
    [] message.command = "diff" /\ Len(w.state.diffFiles) = 0 ->
         renderFileTree(w, message.data.files,
                        [additions |-> message.data.totalAdditions,
                         deletions |-> message.data.totalDeletions], FALSE)
    [] message.command = "commits" ->
         saveState(renderCommits([w EXCEPT !.state.commits = message.data], message.data))
    [] OTHER -> w

\* The 'message' listener.
onMessage(w, message) ==
  CASE message.command = "branches" -> populateBranchSelects(w, message.data, FALSE)
    [] message.command = "diff" ->
         renderFileTree(w, message.data.files,
                        [additions |-> message.data.totalAdditions,
                         deletions |-> message.data.totalDeletions], FALSE)
    [] message.command = "commits" ->
         saveState(renderCommits([w EXCEPT !.state.commits = message.data], message.data))
    [] OTHER -> w

\* init, after the listeners are registered: the restore of a saved state
\* that has local branches, or the first request.
init(w) ==
  IF w.saved # <<>> /\ Len(w.saved[1].branches.local) > 0
    THEN LET filled == populateBranchSelects(w, w.state.branches, TRUE)
             chosen == [filled EXCEPT
                          !.dom.baseBranch = updateSelectTitle(setValue(@, filled.state.baseBranch)),
                          !.dom.targetBranch = updateSelectTitle(setValue(@, filled.state.targetBranch))]
             tree == IF Len(chosen.state.diffFiles) > 0
                       THEN renderFileTree(chosen, chosen.state.diffFiles, chosen.state.totalStats, TRUE)
                       ELSE chosen
         IN IF tree.threw THEN tree
            ELSE IF Len(tree.state.commits) > 0 THEN renderCommits(tree, tree.state.commits)
            ELSE tree
    ELSE postMessage(w, [command |-> "getBranches"])

\* A row can be clicked when every folder above it is expanded.
RowShown(rows, i) ==
  \A j \in 1..Len(rows) :
    (rows[j].type = "folder"
       /\ (rows[i].parent = rows[j].path
             \/ startsWith(rows[i].parent, rows[j].path \o SLASH)))
      => rows[j].expanded

onTreeItemClickUnsaved(w, i) ==
  LET target == w.dom.fileTree.items[i]
  IN IF target.type = "folder"
       THEN IF SetHas(w.state.expandedFolders, target.path)
              THEN [w EXCEPT !.state.expandedFolders = SetDelete(@, target.path),
                             !.dom.fileTree.items[i].expanded = FALSE]
              ELSE [w EXCEPT !.state.expandedFolders = SetAdd(@, target.path),
                             !.dom.fileTree.items[i].expanded = TRUE]
       ELSE postMessage(w, [command |-> "openDiff",
                            baseBranch |-> w.state.baseBranch,
                            targetBranch |-> w.state.targetBranch,
                            filePath |-> target.path])

\* The first 'click' listener of #fileTree, for a click on the i-th row.
onTreeItemClick(w, i) ==
  LET target == w.dom.fileTree.items[i]
  IN IF target.type = "folder"
       THEN saveState(
              IF SetHas(w.state.expandedFolders, target.path)
                THEN [w EXCEPT !.state.expandedFolders = SetDelete(@, target.path),
                               !.dom.fileTree.items[i].expanded = FALSE]
                ELSE [w EXCEPT !.state.expandedFolders = SetAdd(@, target.path),
                               !.dom.fileTree.items[i].expanded = TRUE])
       ELSE postMessage(w, [command |-> "openDiff",
                            baseBranch |-> w.state.baseBranch,
                            targetBranch |-> w.state.targetBranch,
                            filePath |-> target.path])

\* The second 'click' listener of #fileTree, for a click on the button of
\* the i-th row.
onOpenFileClick(w, i) ==
  postMessage(w, [command |-> "openFile",
                  filePath |-> w.dom.fileTree.items[i].path,
                  targetBranch |-> w.state.targetBranch])

\* The webview has no page loaded and its channel is idle.
NoWebview ==
  /\ sent = <<>>
  /\ events = 0
  /\ state = InitialState
  /\ saved = <<>>
  /\ dom = InitialDom

-----------------------------------------------------------------------------
(* BranchDiffViewProvider: the dispatcher *)

\* _postMessage; _view is set before the message handler is registered.
Post(message) == posted' = Append(posted, message)

\* The repository the dispatcher of a webview session works on: what
\* `git branch -a` lists, the branch checked out, and for a pair of
\* revisions the changes and the commits between them.
RepoAll == <<"dev", "main", "remotes/origin/HEAD", "remotes/origin/main">>

RepoCurrent == "dev"

RangeChanges(baseBranch, targetBranch) ==
  IF baseBranch = targetBranch THEN <<>>
  ELSE IF targetBranch = "dev"
    THEN << [path |-> 1, binary |-> FALSE, insertions |-> 1, deletions |-> 1],
            [path |-> 5, binary |-> FALSE, insertions |-> 1, deletions |-> 0] >>
  ELSE IF baseBranch = "dev"
    THEN << [path |-> 3, binary |-> FALSE, insertions |-> 0, deletions |-> 1] >>
  ELSE << [path |-> 4, binary |-> TRUE, insertions |-> 0, deletions |-> 0] >>

RangeHistory(baseBranch, targetBranch) ==
  IF baseBranch = targetBranch THEN <<>>
  ELSE IF targetBranch = "dev" THEN << CommitOf(1, 3), CommitOf(2, 8) >>
  ELSE IF baseBranch = "dev" THEN << CommitOf(3, 2) >>
  ELSE << CommitOf(4, 12) >>

\* The names a request can give for a revision.
Revisions == {"dev", "main", "origin/main"}

\* What gitService.getDiff and gitService.getCommitHistory return for each
\* pair of revisions of the repository.
RepoDiff ==
  [baseBranch \in Revisions, targetBranch \in Revisions |->
     getDiffFiles(diffSummary(RangeChanges(baseBranch, targetBranch)))]

RepoLog ==
  [baseBranch \in Revisions, targetBranch \in Revisions |->
     getCommitHistory(LogOutput(RangeHistory(baseBranch, targetBranch)))]

\* The text of a path as a revision has it, and as the checked-out tree
\* has it (a clean checkout of the current branch).
FileAt(revision, filePath) == [revision |-> revision, path |-> filePath]

WorkingTreeFile(filePath) == FileAt(RepoCurrent, filePath)

WorkspaceRoot == Chars("/repo")

\* GitService.getAllBranches on what git.branch(['-a']) lists.
RECURSIVE getAllBranches(_)
getAllBranches(all) ==
  IF all = <<>> THEN [local |-> <<>>, remote |-> <<>>]
  ELSE LET before == getAllBranches(SubSeq(all, 1, Len(all) - 1))
           branch == all[Len(all)]
           remoteBranch == SubSeq(branch, Len("remotes/") + 1, Len(branch))
       IN IF startsWith(branch, "remotes/")
            THEN IF ~includes(remoteBranch, "HEAD")
                   THEN [before EXCEPT !.remote = Append(@, remoteBranch)]
                   ELSE before
            ELSE [before EXCEPT !.local = Append(@, branch)]

\* GitService.getBranches on what git.branch() reports.
getBranches(summary) ==
  [current |-> summary.current,
   all |-> SelectSeq(summary.all, LAMBDA b : ~startsWith(b, "remotes/"))]

\* _sendBranches.  okAll and okCurrent are whether the two git.branch calls
\* resolve; the second is made only after the first has resolved.
sendBranches(okAll, okCurrent) ==
  /\ IF ~gitService
       THEN /\ Post([command |-> "error", message |-> "No workspace folder found"])
            /\ calls' = <<>>
     ELSE IF ~okAll
       THEN /\ calls' = <<[op |-> "branch -a", ok |-> FALSE]>>
            /\ Post([command |-> "error", message |-> "Failed to get branches"])
     ELSE /\ calls' = << [op |-> "branch -a", ok |-> TRUE],
                         [op |-> "branch", ok |-> okCurrent] >>
          /\ IF okCurrent
               THEN Post([command |-> "branches",
                          data |-> [local |-> getAllBranches(RepoAll).local,
                                    remote |-> getAllBranches(RepoAll).remote,
                                    current |-> getBranches([current |-> RepoCurrent,
                                                             all |-> RepoAll]).current]])
               ELSE Post([command |-> "error", message |-> "Failed to get branches"])
  /\ UNCHANGED opened

\* _sendDiff, with what gitService.getDiff returns when git.diffSummary
\* resolves; `ok` is whether it resolves or rejects.
sendDiff(diff, ok) ==
  /\ IF ~gitService THEN calls' = <<>> /\ UNCHANGED posted
     ELSE /\ calls' = <<[op |-> "diffSummary", ok |-> ok]>>
          /\ IF ok THEN Post([command |-> "diff", data |-> diff])
             ELSE Post([command |-> "error", message |-> "Failed to get diff"])
  /\ UNCHANGED opened

\* _sendCommitHistory reporting an empty result as a failure.
sendCommitHistoryEmptyIsError(commits, ok) ==
  /\ IF ~gitService THEN calls' = <<>> /\ UNCHANGED posted
     ELSE /\ calls' = <<[op |-> "log", ok |-> ok]>>
          /\ IF ok /\ commits # <<>>
               THEN Post([command |-> "commits", data |-> commits])
               ELSE Post([command |-> "error", message |-> "Failed to get commits"])
  /\ UNCHANGED opened

\* _sendCommitHistory, with what gitService.getCommitHistory returns when
\* git.raw resolves; `ok` is whether it resolves or rejects.
sendCommitHistory(commits, ok) ==
  /\ IF ~gitService THEN calls' = <<>> /\ UNCHANGED posted
     ELSE /\ calls' = <<[op |-> "log", ok |-> ok]>>
          /\ IF ok THEN Post([command |-> "commits", data |-> commits])
             ELSE Post([command |-> "error", message |-> "Failed to get commits"])
  /\ UNCHANGED opened

\* The git-show URI of a path at a revision, and the text the content
\* provider serves for it (GitService.getFileContent).
GitShowUri(branch, filePath) ==
  [scheme |-> "git-show", branch |-> branch, path |-> filePath, root |-> WorkspaceRoot]

\* _openDiffEditor.  `ok` is whether the vscode.diff command succeeds; a
\* failure is shown as an error message of the editor.
openDiffEditor(baseBranch, targetBranch, filePath, ok) ==
  /\ IF gitService /\ ok
       THEN opened' = <<[command |-> "vscode.diff",
               left |-> GitShowUri(baseBranch, filePath),
               right |-> GitShowUri(targetBranch, filePath),
               content |-> <<FileAt(baseBranch, filePath), FileAt(targetBranch, filePath)>>]>>
       ELSE UNCHANGED opened
  /\ calls' = <<>>
  /\ UNCHANGED posted

\* _openFile.  `ok` is whether openTextDocument finds the file.
openFile(filePath, targetBranch, ok) ==
  /\ IF gitService /\ ok
       THEN opened' = <<[command |-> "openTextDocument",
               uri |-> [scheme |-> "file", path |-> WorkspaceRoot \o SLASH \o filePath],
               content |-> <<WorkingTreeFile(filePath)>>]>>
       ELSE UNCHANGED opened
  /\ calls' = <<>>
  /\ UNCHANGED posted

RemoveAt(q, i) == SubSeq(q, 1, i - 1) \o SubSeq(q, i + 1, Len(q))

\* _handleMessage for the i-th of the messages whose handler is still
\* running: the handler finishes.
HandleMessage(i, ok, okCurrent) ==
  /\ i \in 1..Len(sent)
  /\ sent' = RemoveAt(sent, i)
  /\ LET message == sent[i]
     IN CASE message.command = "getBranches" -> sendBranches(ok, okCurrent)
          [] message.command = "getDiff" ->
               sendDiff(RepoDiff[message.baseBranch, message.targetBranch], ok)
          [] message.command = "getCommitHistory" ->
               sendCommitHistory(RepoLog[message.baseBranch, message.targetBranch], ok)
          [] message.command = "openDiff" ->
               openDiffEditor(message.baseBranch, message.targetBranch, message.filePath, ok)
          [] message.command = "openFile" ->
               openFile(message.filePath, message.targetBranch, ok)
          [] message.command = "refresh" -> sendBranches(ok, okCurrent)
          [] OTHER -> calls' = <<>> /\ UNCHANGED <<posted, opened>>
  /\ UNCHANGED <<gitService, changes, history, logPad, parts, verdict, handled,
                 events, state, saved, dom>>

\* _sendDiff for the one range of SpecDiff.
SendDiff(ok) ==
  /\ handled < MaxRequests
  /\ handled' = handled + 1
  /\ sendDiff(getDiffFiles(diffSummary(changes)), ok)
  /\ UNCHANGED <<gitService, changes, history, logPad, parts, verdict, webview>>

\* _sendCommitHistory for the one range of SpecLog.
SendCommitHistory(ok) ==
  /\ handled < MaxRequests
  /\ handled' = handled + 1
  /\ sendCommitHistory(getCommitHistory(LogOutput(history) \o logPad), ok)
  /\ UNCHANGED <<gitService, changes, history, logPad, parts, verdict, webview>>

InitDiff ==
  /\ gitService \in BOOLEAN
  /\ changes \in ChangeLists(MaxFiles)
  /\ history = <<>>
  /\ logPad = <<>>
  /\ parts = <<>>
  /\ verdict = <<>>
  /\ handled = 0
  /\ calls = <<>>
  /\ posted = <<>>
  /\ opened = <<>>
  /\ NoWebview

NextDiff == \E ok \in BOOLEAN : SendDiff(ok)

SpecDiff == InitDiff /\ [][NextDiff]_vars

InitLog ==
  /\ gitService \in BOOLEAN
  /\ changes = <<>>
  /\ history \in Histories(MaxCommits)
  /\ logPad \in LogPads
  /\ parts = <<>>
  /\ verdict = <<>>
  /\ handled = 0
  /\ calls = <<>>
  /\ posted = <<>>
  /\ opened = <<>>
  /\ NoWebview

NextLog == \E ok \in BOOLEAN : SendCommitHistory(ok)

SpecLog == InitLog /\ [][NextLog]_vars

\* Segments for a direct call of shouldFormatAsList: titles around the
\* 100-character limit and items around the 5, 10 and 20 character limits,
\* with and without a list mark, an ASCII full stop, or surrounding blanks.
Titles ==
  { <<>>, Rep("t", 1), Rep("t", 100), Rep("t", 101), <<" ">> \o Rep("t", 100) \o <<" ">> }

Item(n, last) == Rep("x", n - 1) \o <<last>>

Items ==
  { Item(5, "x"), Item(6, "x"), Item(10, IdeographicFullStop),
    Item(11, "x"), Item(11, "."),
    Item(11, FullwidthComma), Item(11, IdeographicFullStop), Item(11, IdeographicComma),
    Item(20, "x"), Item(21, "x"), <<" ">> \o Item(20, "x") \o <<" ">> }

\* No segment at all, or a title and up to `most` items.
PartLists(most) ==
  {<<>>} \cup UNION { { <<t>> \o rest : t \in Titles, rest \in [1..n -> Items] } : n \in 0..most }

CallShouldFormatAsList ==
  /\ verdict = <<>>
  /\ verdict' = <<shouldFormatAsList(parts)>>
  /\ UNCHANGED <<gitService, changes, history, logPad, parts, handled, calls, posted, opened, webview>>

InitList ==
  /\ gitService = FALSE
  /\ changes = <<>>
  /\ history = <<>>
  /\ logPad = <<>>
  /\ parts \in PartLists(MaxRest)
  /\ verdict = <<>>
  /\ handled = 0
  /\ calls = <<>>
  /\ posted = <<>>
  /\ opened = <<>>
  /\ NoWebview

NextList == CallShouldFormatAsList

SpecList == InitList /\ [][NextList]_vars

-----------------------------------------------------------------------------
(* The webview at work *)

\* The page as the variables hold it, at the start of a listener.
Current == [state |-> state, saved |-> saved, dom |-> dom, out |-> <<>>, threw |-> FALSE]

\* The page a listener leaves behind; the messages it posted start their
\* handlers in the dispatcher.
Apply(w) ==
  /\ state' = w.state
  /\ saved' = w.saved
  /\ dom' = w.dom
  /\ sent' = sent \o w.out

\* The next posted message reaches the 'message' listener.
Deliver ==
  /\ posted # <<>>
  /\ posted' = Tail(posted)
  /\ \E w \in {onMessage(Current, Head(posted))} : Apply(w)
  /\ UNCHANGED <<gitService, changes, history, logPad, parts, verdict,
                 handled, calls, opened, events>>

\* The page right after its first load: init has asked for the branches.
FirstLoad ==
  LET w == init(Page(<<>>))
  IN /\ state = w.state
     /\ saved = w.saved
     /\ dom = w.dom
     /\ sent = w.out
     /\ events = 0

\* Changed files of a comparison, as a 'diff' response lists them: `a` was a
\* file on the base side and is a directory on the target side.
TreeFiles ==
  << [path |-> Chars("a/b.txt"), additions |-> 1, deletions |-> 1, status |-> "modified"],
     [path |-> Chars("a/c/d.txt"), additions |-> 2, deletions |-> 0, status |-> "added"],
     [path |-> Chars("e.txt"), additions |-> 0, deletions |-> 0, status |-> "modified"],
     [path |-> Chars("a"), additions |-> 0, deletions |-> 3, status |-> "deleted"],
     [path |-> Chars("a/b"), additions |-> 1, deletions |-> 0, status |-> "added"],
     [path |-> Chars("b/a.txt"), additions |-> 0, deletions |-> 1, status |-> "deleted"],
     [path |-> Chars("a1/z"), additions |-> 1, deletions |-> 0, status |-> "renamed"] >>

\* Up to `most` distinct changed files, in any order.
TreeFileLists(most) ==
  UNION { { [i \in 1..n |-> TreeFiles[s[i]]] :
            s \in { t \in [1..n -> 1..Len(TreeFiles)] :
                      \A i, j \in 1..n : i # j => t[i] # t[j] } }
          : n \in 0..most }

DiffOf(files) ==
  [command |-> "diff",
   data |-> [files |-> files,
             totalAdditions |-> Sum([i \in 1..Len(files) |-> files[i].additions]),
             totalDeletions |-> Sum([i \in 1..Len(files) |-> files[i].deletions])]]

\* A loaded page with one 'diff' response on its way.
InitTree ==
  /\ gitService = TRUE
  /\ changes = <<>>
  /\ history = <<>>
  /\ logPad = <<>>
  /\ parts = <<>>
  /\ verdict = <<>>
  /\ handled = 0
  /\ calls = <<>>
  /\ posted \in { <<DiffOf(files)>> : files \in TreeFileLists(MaxTreeFiles) }
  /\ opened = <<>>
  /\ FirstLoad

NextTree == Deliver

SpecTree == InitTree /\ [][NextTree]_vars

\* A listener run for something the user did; the runs of a session are
\* counted, a reload among them.
UserEvent(w) ==
  /\ events < MaxActions
  /\ events' = events + 1
  /\ \E page \in {w} : Apply(page)
  /\ UNCHANGED <<gitService, changes, history, logPad, parts, verdict,
                 handled, calls, posted, opened>>

\* The user picks another option of a branch selector: 'change'.
ChangeBranch(select, v) ==
  /\ \E k \in 1..Len(dom[select].options) : dom[select].options[k] = v
  /\ v # dom[select].value
  /\ UserEvent(onBranchChange([Current EXCEPT !.dom[select].value = v]))

\* The user clicks the refresh button.
ClickRefresh == UserEvent(onRefresh(Current))

\* The user clicks the i-th row of the tree, outside its button.
ClickTreeItem(i) ==
  /\ i \in 1..Len(dom.fileTree.items)
  /\ RowShown(dom.fileTree.items, i)
  /\ UserEvent(onTreeItemClick(Current, i))

\* The user clicks the open-file button of the i-th row: the click reaches
\* both listeners of #fileTree, in the order they were added.
ClickOpenFile(i) ==
  /\ i \in 1..Len(dom.fileTree.items)
  /\ RowShown(dom.fileTree.items, i)
  /\ dom.fileTree.items[i].button
  /\ UserEvent(onOpenFileClick(onTreeItemClick(Current, i), i))

\* What the user types into the search box.
Queries == { <<>>, Chars("Fix") }

\* The user edits the search box: 'input'.
TypeSearch(q) ==
  /\ q # dom.commitSearch
  /\ UserEvent(onCommitSearch([Current EXCEPT !.dom.commitSearch = q]))

\* The webview is created anew and main.js runs again with the saved state;
\* messages posted to the old page and not yet delivered are lost with it.
Reload ==
  /\ events < MaxActions
  /\ events' = events + 1
  /\ \E w \in {init(Page(saved))} : Apply(w)
  /\ posted' = <<>>
  /\ UNCHANGED <<gitService, changes, history, logPad, parts, verdict,
                 handled, calls, opened>>

\* A handler finishes while git answers and the page has taken every
\* response posted before.
Respond(i) ==
  /\ Len(posted) < MaxPosted
  /\ HandleMessage(i, TRUE, TRUE)

InitWebview ==
  /\ gitService \in BOOLEAN
  /\ changes = <<>>
  /\ history = <<>>
  /\ logPad = <<>>
  /\ parts = <<>>
  /\ verdict = <<>>
  /\ handled = 0
  /\ calls = <<>>
  /\ posted = <<>>
  /\ opened = <<>>
  /\ FirstLoad

NextWebview ==
  \/ \E select \in {"baseBranch", "targetBranch"} :
       \E k \in 1..Len(dom[select].options) : ChangeBranch(select, dom[select].options[k])
  \/ ClickRefresh
  \/ \E i \in 1..Len(dom.fileTree.items) : ClickTreeItem(i)
  \/ \E i \in 1..Len(dom.fileTree.items) : ClickOpenFile(i)
  \/ \E q \in Queries : TypeSearch(q)
  \/ Reload
  \/ Deliver
  \/ \E i \in 1..Len(sent) : Respond(i)

SpecWebview == InitWebview /\ [][NextWebview]_vars

\* The search box at work: the first load, and a user who only types.
SearchTexts ==
  { <<>>, Chars("Fix"), Chars("BUG"), Chars("typo"), Chars("ann l"), Chars("LEE"),
    Chars("2222"), Chars("1111111"), Chars("zzz") }

NextSearch ==
  \/ \E q \in SearchTexts : TypeSearch(q)
  \/ Deliver
  \/ \E i \in 1..Len(sent) : Respond(i)

SpecSearch == InitWebview /\ [][NextSearch]_vars

-----------------------------------------------------------------------------
(* The dispatcher at work: requests as a webview can post them *)

RequestBranches == {"dev", "main"}

RequestPaths == {Chars("src/app.ts")}

\* The messages of main.js, and one of a kind _handleMessage does not know.
Requests ==
  {[command |-> "getBranches"], [command |-> "refresh"], [command |-> "ping"]}
    \cup { [command |-> c, baseBranch |-> b, targetBranch |-> t] :
           c \in {"getDiff", "getCommitHistory"}, b \in RequestBranches, t \in RequestBranches }
    \cup { [command |-> "openDiff", baseBranch |-> b, targetBranch |-> t, filePath |-> f] :
           b \in RequestBranches, t \in RequestBranches, f \in RequestPaths }
    \cup { [command |-> "openFile", filePath |-> f, targetBranch |-> t] :
           f \in RequestPaths, t \in RequestBranches }

\* onDidReceiveMessage: a message arrives and its handler starts; handlers
\* of earlier messages may still be waiting for git.
Receive(message) ==
  /\ Len(sent) + Len(posted) < MaxInflight
  /\ sent' = Append(sent, message)
  /\ UNCHANGED <<gitService, changes, history, logPad, parts, verdict,
                 handled, calls, posted, opened, events, state, saved, dom>>

InitDispatch ==
  /\ gitService \in BOOLEAN
  /\ changes = <<>>
  /\ history = <<>>
  /\ logPad = <<>>
  /\ parts = <<>>
  /\ verdict = <<>>
  /\ handled = 0
  /\ calls = <<>>
  /\ posted = <<>>
  /\ opened = <<>>
  /\ NoWebview

NextDispatch ==
  \/ \E message \in Requests : Receive(message)
  \/ \E i \in 1..Len(sent) : \E ok, okCurrent \in BOOLEAN : HandleMessage(i, ok, okCurrent)

SpecDispatch == InitDispatch /\ [][NextDispatch]_vars

-----------------------------------------------------------------------------
(* Properties of getDiffFiles, read off the 'diff' responses *)

DiffResponses == { k \in 1..Len(posted) : posted[k].command = "diff" }

NoBraceOrArrow(path) ==
  ~includes(path, <<"{">>) /\ ~includes(path, <<"}">>) /\ ~includes(path, ARROW)

\* C1: an entry whose raw path has a braced {old => new} segment is returned
\* with status 'renamed' whatever its counts are, and with the path
\* prefix + new + suffix: the braces, the arrow and the old name are gone.
C1_BracedRename ==
  \A k \in DiffResponses : \A i \in 1..Len(changes) :
    LET p == Paths[changes[i].path]
        f == posted[k].data.files[i]
    IN Braced(p) =>
         /\ f.status = "renamed"
         /\ f.path = p.prefix \o p.new \o p.suffix
         /\ NoBraceOrArrow(f.path)

\* A braced rename whose counts alone would say 'added' has been returned.
C1_Witness ==
  \E k \in DiffResponses : \E i \in 1..Len(changes) :
    /\ Braced(Paths[changes[i].path])
    /\ ~changes[i].binary /\ changes[i].insertions > 0 /\ changes[i].deletions = 0
    /\ posted[k].data.files[i].status = "renamed"

\* C2: an entry whose raw path has no braced segment is 'added' when
\* insertions > 0 and deletions = 0, 'deleted' when deletions > 0 and
\* insertions = 0, and 'modified' otherwise (0/0, both positive, no counts).
C2_StatusByCounts ==
  \A k \in DiffResponses : \A i \in 1..Len(changes) :
    LET c == changes[i]
        f == posted[k].data.files[i]
    IN ~Braced(Paths[c.path]) =>
         /\ (~c.binary /\ c.insertions > 0 /\ c.deletions = 0) => f.status = "added"
         /\ (~c.binary /\ c.deletions > 0 /\ c.insertions = 0) => f.status = "deleted"
         /\ (c.binary \/ (c.insertions > 0) = (c.deletions > 0)) => f.status = "modified"

\* An unbraced `old => new` entry with deletions only has been returned as 'deleted'.
C2_Witness ==
  \E k \in DiffResponses : \E i \in 1..Len(changes) :
    /\ Paths[changes[i].path].renamed /\ ~Braced(Paths[changes[i].path])
    /\ changes[i].deletions > 0
    /\ posted[k].data.files[i].status = "deleted"

-----------------------------------------------------------------------------
(* Properties of getCommitHistory, read off the 'commits' responses *)

CommitResponses == { k \in 1..Len(posted) : posted[k].command = "commits" }

\* The commit of the range a returned record stands for.
Source(r) == history[CHOOSE i \in 1..Len(history) : history[i].hash = r.hash]

\* The places <<k, i>> of the returned records: record i of response k.
AllReturned ==
  { ki \in (1..Len(posted)) \X (1..MaxCommits) :
      posted[ki[1]].command = "commits" /\ ki[2] <= Len(posted[ki[1]].data) }

Rec(ki) == posted[ki[1]].data[ki[2]]

ListMarks == {FullwidthComma, IdeographicFullStop, IdeographicComma}

\* The non-blank ' - ' segments of a line.
Segments(line) == SelectSeq(split(line, DASH), NonBlank)

\* The list rule of the specification: at least 2 segments, a first segment
\* of at most 100 characters, and every later segment longer than 10
\* characters and holding a list mark or longer than 20 characters
\* (lengths without surrounding white space).
ListShaped(segs) ==
  /\ Len(segs) >= 2
  /\ Len(trim(segs[1])) <= 100
  /\ \A i \in 2..Len(segs) :
       LET seg == trim(segs[i])
       IN Len(seg) > 10 /\ ((\E j \in 1..Len(seg) : seg[j] \in ListMarks) \/ Len(seg) > 20)

\* A segment as a bulleted line.
BulletLine(seg) == IF trim(seg)[1] = "-" THEN trim(seg) ELSE <<"-", " ">> \o trim(seg)

Lines(ls) == join(ls, NL)

FixBugSubject == Chars("Fix bug - Update docs - Add tests")

\* C4 as stated: subject "Fix bug - Update docs - Add tests" without a body
\* gets the message "Fix bug\n- Update docs\n- Add tests".
C4_FixBugBulleted ==
  \A ki \in AllReturned :
    LET r == Rec(ki) IN
    (Source(r).subject = FixBugSubject /\ Source(r).body = <<>>)
      => r.message = Chars("Fix bug\n- Update docs\n- Add tests")

\* C4 amended: a commit without a body keeps its subject as the message
\* unless the subject passes the list rule; "Fix bug - Update docs - Add
\* tests" does not pass (its later segments have no list mark and at most 20
\* characters) and stays as it is, while a subject that passes becomes its
\* first segment followed by one bulleted line per later segment.
C4_SubjectSplitWhenListShaped ==
  \A ki \in AllReturned :
    LET r == Rec(ki)
        c == Source(r)
        segs == Segments(c.subject)
    IN c.body = <<>> =>
         /\ c.subject = FixBugSubject => r.message = FixBugSubject
         /\ ~ListShaped(segs) => r.message = c.subject
         /\ ListShaped(segs) =>
              r.message = Lines(<<segs[1]>> \o [i \in 1..(Len(segs) - 1) |-> BulletLine(segs[i + 1])])

\* Both cases have been returned: the subject of C4 kept as it is, and a
\* list-shaped subject split into a first line and two bulleted lines.
C4_Witness ==
  /\ \E ki \in AllReturned : LET r == Rec(ki) IN
       Source(r).subject = FixBugSubject /\ r.message = FixBugSubject
  /\ \E ki \in AllReturned : LET r == Rec(ki) IN
       /\ Source(r).subject = ListSubject /\ Source(r).body = <<>>
       /\ r.message = Chars("Fix bug\n- Update the documentation pages\n- Add tests for the parser module")

\* C5: a single-line body that fails the list rule follows the subject and a
\* line break verbatim, without a bullet; "chore: release" with body "v1.2.3"
\* gives "chore: release\nv1.2.3".
C5_PlainBodyVerbatim ==
  \A ki \in AllReturned :
    LET r == Rec(ki)
        c == Source(r)
    IN /\ (c.body # <<>> /\ ~includes(c.body, NL) /\ ~ListShaped(Segments(c.body)))
            => r.message = c.subject \o NL \o c.body
       /\ (c.subject = Chars("chore: release") /\ c.body = Chars("v1.2.3"))
            => r.message = Chars("chore: release\nv1.2.3")

\* The example of C5 has been returned with its body unchanged.
C5_Witness ==
  \E ki \in AllReturned : LET r == Rec(ki) IN
    /\ Source(r).subject = Chars("chore: release") /\ Source(r).body = Chars("v1.2.3")
    /\ r.message = Chars("chore: release\nv1.2.3")

\* C6: a body of more than one line is never reformatted; a commit with a
\* body keeps its subject line as it is, list-shaped or not; the list rule
\* decides the body only when the body is one line, and the subject only
\* when there is no body.
C6_Precedence ==
  \A ki \in AllReturned :
    LET r == Rec(ki)
        c == Source(r)
    IN /\ includes(c.body, NL) => r.message = c.subject \o NL \o c.body
       /\ c.body # <<>> => startsWith(r.message, c.subject \o NL)
       /\ (c.body # <<>> /\ ~includes(c.body, NL))
            => (r.message # c.subject \o NL \o c.body) = ListShaped(Segments(c.body))
       /\ c.body = <<>> => (r.message # c.subject) = ListShaped(Segments(c.subject))

\* Returned together: a body of two lines whose first line is list-shaped,
\* kept verbatim, and a list-shaped subject kept whole because of its body.
C6_Witness ==
  /\ \E ki \in AllReturned : LET r == Rec(ki) IN
       /\ includes(Source(r).body, NL)
       /\ ListShaped(Segments(split(Source(r).body, NL)[1]))
       /\ r.message = Source(r).subject \o NL \o Source(r).body
  /\ \E ki \in AllReturned : LET r == Rec(ki) IN
       /\ Source(r).subject = ListSubject /\ Source(r).body # <<>>
       /\ r.message = ListSubject \o NL \o Source(r).body

C8_TitleNotBulleted ==
  \A ki \in AllReturned :
    LET r == Rec(ki)
        c == Source(r)
        segs == Segments(c.body)
    IN (c.body # <<>> /\ ~includes(c.body, NL) /\ ListShaped(segs))
         => r.message = Lines(<<c.subject, trim(segs[1])>>
                                \o [i \in 1..(Len(segs) - 1) |-> BulletLine(segs[i + 1])])

\* C8 amended: when a single-line body passes the list rule the message is
\* the subject, without a bullet, followed by one line per body segment, the
\* first segment included; each line is the segment prefixed with "- ", or
\* the segment alone when it already starts with "-".
C8_EveryBodySegmentBulleted ==
  \A ki \in AllReturned :
    LET r == Rec(ki)
        c == Source(r)
        segs == Segments(c.body)
    IN (c.body # <<>> /\ ~includes(c.body, NL) /\ ListShaped(segs))
         => r.message = Lines(<<c.subject>> \o [i \in 1..Len(segs) |-> BulletLine(segs[i])])

\* A one-line list-shaped body has been returned with all three segments bulleted.
C8_Witness ==
  \E ki \in AllReturned : LET r == Rec(ki) IN
    /\ Source(r).body = ListBody
    /\ r.message = Chars("feat: parser\n- Changes\n- Update the documentation pages\n- Add tests for the parser module")

\* C9: every 'commits' response holds one record per commit of the range, in
\* the order of the log output.
C9_OneRecordPerCommit ==
  \A k \in CommitResponses :
    /\ Len(posted[k].data) = Len(history)
    /\ \A i \in 1..Len(history) : posted[k].data[i].hash = history[i].hash

\* C10: when the range is empty and git resolves, the log output is empty
\* or white space, getCommitHistory returns the empty sequence and the
\* response is 'commits' with an empty list, not 'error'.
C10_EmptyRange ==
  \A k \in 1..Len(calls) :
    (calls[k].op = "log" /\ calls[k].ok /\ history = <<>>)
      => posted[Len(posted)] = [command |-> "commits", data |-> <<>>]

\* An empty range whose log output is white space only has been answered.
C10_Witness ==
  /\ history = <<>> /\ logPad # <<>>
  /\ \E k \in CommitResponses : posted[k].data = <<>>

-----------------------------------------------------------------------------
(* Properties of the file tree, read off the rows of #fileTree *)

\* The one 'diff' response of SpecTree has reached the page, which keeps
\* its files in state.diffFiles.
Rendered == posted = <<>>

Segs(file) == split(file.path, SLASH)

Leading(file, n) == join(SubSeq(Segs(file), 1, n), SLASH)

\* Every proper leading part of a path of the files.
FolderPaths(files) ==
  { Leading(files[i], n) : <<i, n>> \in
      { <<i, n>> \in (1..Len(files)) \X (1..4) : n < Len(Segs(files[i])) } }

RowsWhere(rows, type, path) ==
  { j \in 1..Len(rows) : rows[j].type = type /\ rows[j].path = path }

\* a comes before b in lexicographic order of the characters.
LexLess(a, b) ==
  \E n \in 0..Min({Len(a), Len(b)}) :
    /\ SubSeq(a, 1, n) = SubSeq(b, 1, n)
    /\ IF n = Len(a) THEN n < Len(b)
       ELSE n < Len(b) /\ Rank(a[n + 1]) < Rank(b[n + 1])

FileRowsOf(files, rows) ==
  \A i \in 1..Len(files) :
    /\ Cardinality(RowsWhere(rows, "file", files[i].path)) = 1
    /\ \A j \in RowsWhere(rows, "file", files[i].path) :
         /\ rows[j].name = Segs(files[i])[Len(Segs(files[i]))]
         /\ rows[j].parent = Leading(files[i], Len(Segs(files[i])) - 1)
         /\ rows[j].depth = Len(Segs(files[i])) - 1

FolderRowsOf(files, rows) ==
  \A i \in 1..Len(files) : \A n \in 1..(Len(Segs(files[i])) - 1) :
    /\ Cardinality(RowsWhere(rows, "folder", Leading(files[i], n))) = 1
    /\ \A j \in RowsWhere(rows, "folder", Leading(files[i], n)) :
         /\ rows[j].name = Segs(files[i])[n]
         /\ rows[j].parent = Leading(files[i], n - 1)
         /\ rows[j].depth = n - 1

\* Siblings: folders first, each group in lexicographic order; the rows of
\* a folder follow the folder's own row without a row from elsewhere between.
RowsInOrder(rows) ==
  /\ \A j, k \in 1..Len(rows) :
       (j < k /\ rows[j].parent = rows[k].parent) =>
         /\ rows[j].type = "folder" \/ rows[k].type = "file"
         /\ rows[j].type = rows[k].type => LexLess(rows[j].name, rows[k].name)
  /\ \A k \in 1..Len(rows) :
       rows[k].parent # <<>> =>
         \E j \in 1..(k - 1) :
           /\ rows[j].type = "folder" /\ rows[j].path = rows[k].parent
           /\ \A m \in (j + 1)..k :
                rows[m].parent = rows[j].path \/ startsWith(rows[m].parent, rows[j].path \o SLASH)

ExamplePaths == <<Chars("a/b.txt"), Chars("a/c/d.txt"), Chars("e.txt")>>

ExampleRows ==
  << <<"folder", Chars("a")>>, <<"folder", Chars("a/c")>>, <<"file", Chars("a/c/d.txt")>>,
     <<"file", Chars("a/b.txt")>>, <<"file", Chars("e.txt")>> >>

\* C11: for any list of changed paths the tree has one folder row for every
\* leading part of a path, nested in the folder of the part before it, and
\* one file row for every path inside the folder of its leading parts; at
\* every level the folders come before the files, each group in
\* lexicographic order; and ["a/b.txt", "a/c/d.txt", "e.txt"] gives folder
\* a, folder a/c, d.txt, b.txt, e.txt.
C11_TreeOfPaths ==
  Rendered =>
    LET files == state.diffFiles
        rows == dom.fileTree.items
    IN /\ FileRowsOf(files, rows)
       /\ FolderRowsOf(files, rows)
       /\ Len(rows) = Len(files) + Cardinality(FolderPaths(files))
       /\ RowsInOrder(rows)
       /\ [i \in 1..Len(files) |-> files[i].path] = ExamplePaths =>
            [j \in 1..Len(rows) |-> <<rows[j].type, rows[j].path>>] = ExampleRows

\* C19: once a 'diff' response is rendered, every file of the response is
\* exactly one file row of the tree and the number of file rows is the N of
\* 'N Changes', also when one path is a leading part of another.
C19_EveryFileOneRow ==
  Rendered =>
    LET files == state.diffFiles
        rows == dom.fileTree.items
    IN /\ dom.changesCount = decimal(Len(files)) \o Chars(" Changes")
       /\ \A i \in 1..Len(files) :
            Cardinality(RowsWhere(rows, "file", files[i].path)) = 1
       /\ Cardinality({ j \in 1..Len(rows) : rows[j].type = "file" }) = Len(files)

-----------------------------------------------------------------------------
(* Properties of the dispatcher, read off its steps *)

\* The handler of the request at position i of `sent` finishes in this step.
Finishes(i) == sent' = RemoveAt(sent, i)

Answered(i) ==
  /\ Len(posted') = Len(posted) + 1
  /\ SubSeq(posted', 1, Len(posted)) = posted
  /\ LET response == posted'[Len(posted')]
         payload == CASE sent[i].command = "getBranches" -> "branches"
                      [] sent[i].command = "getDiff" -> "diff"
                      [] OTHER -> "commits"
     IN response.command \in {payload, "error"}

\* No git operation is made twice for one request.
NotRetried ==
  \A j, k \in 1..Len(calls') : j # k => calls'[j].op # calls'[k].op

\* C12: the handler of every getBranches, getDiff and getCommitHistory
\* request, with or without a workspace folder, with git resolving or
\* rejecting, posts exactly one message, the payload of the request or an
\* error, and makes no git call twice.
C12_OneResponse ==
  [][\A i \in 1..Len(sent) :
       (Finishes(i) /\ sent[i].command \in {"getBranches", "getDiff", "getCommitHistory"})
         => Answered(i) /\ NotRetried]_vars

\* C18: the document an openFile request opens holds the text of filePath
\* as the revision targetBranch has it.
C18_OpensAtTargetBranch ==
  [][\A i \in 1..Len(sent) :
       (Finishes(i) /\ sent[i].command = "openFile" /\ opened' # opened)
         => opened'[1].content = <<FileAt(sent[i].targetBranch, sent[i].filePath)>>]_vars


-----------------------------------------------------------------------------
(* The requests of a user action *)

\* The step is a change of one of the two branch selectors.
ChangesBranch ==
  \E select \in {"baseBranch", "targetBranch"} :
    \E k \in 1..Len(dom[select].options) : ChangeBranch(select, dom[select].options[k])

\* The step is a click on a file row of the tree.
ClicksFile ==
  \E i \in 1..Len(dom.fileTree.items) :
    dom.fileTree.items[i].type = "file" /\ ClickTreeItem(i)

\* The two requests for the pair of branches b and t.
DiffRequests(b, t) ==
  << [command |-> "getDiff", baseBranch |-> b, targetBranch |-> t],
     [command |-> "getCommitHistory", baseBranch |-> b, targetBranch |-> t] >>

BothSelected(b, t) == b # "" /\ t # ""

\* C13 as stated: a change of a branch selector, a click on refresh and a
\* click on a file each send exactly one request to the dispatcher.
C13_OneRequestPerAction ==
  [][(ChangesBranch \/ ClickRefresh \/ ClicksFile) => Len(sent') = Len(sent) + 1]_vars

\* C13, amended: a change of a branch selector sends getDiff and
\* getCommitHistory for the pair now selected when both selectors hold a
\* branch, and nothing otherwise; a click on refresh sends 'refresh',
\* followed by the same two requests when both branches are selected; a
\* click on a file row sends one openDiff for the selected pair and the
\* row's path.
C13_RequestsPerAction ==
  [][/\ ChangesBranch =>
          sent' = sent \o
            (IF BothSelected(dom'.baseBranch.value, dom'.targetBranch.value)
               THEN DiffRequests(dom'.baseBranch.value, dom'.targetBranch.value)
               ELSE <<>>)
     /\ ClickRefresh =>
          sent' = sent \o <<[command |-> "refresh"]>> \o
            (IF BothSelected(state.baseBranch, state.targetBranch)
               THEN DiffRequests(state.baseBranch, state.targetBranch)
               ELSE <<>>)
     /\ ClicksFile =>
          \E i \in 1..Len(dom.fileTree.items) :
            sent' = Append(sent, [command |-> "openDiff",
                                  baseBranch |-> state.baseBranch,
                                  targetBranch |-> state.targetBranch,
                                  filePath |-> dom.fileTree.items[i].path])]_vars

\* Witness for C13: the user has acted and a 'refresh' is waiting with the
\* two requests of loadDiff behind it.
C13_RefreshSentThree ==
  /\ events > 0
  /\ \E k \in 1..Len(sent) :
       /\ k + 2 <= Len(sent)
       /\ sent[k].command = "refresh"
       /\ sent[k + 1].command = "getDiff"
       /\ sent[k + 2].command = "getCommitHistory"


-----------------------------------------------------------------------------
(* Responses that arrive late *)

\* The rows of #commitList show the commits, in order.
ShowsCommits(list, commits) ==
  IF commits = <<>> THEN list.kind = "empty-state"
  ELSE /\ list.kind = "items"
       /\ Len(list.items) = Len(commits)
       /\ \A i \in 1..Len(commits) :
            /\ list.items[i].hash = commits[i].hash
            /\ list.items[i].shortHash = commits[i].shortHash
            /\ list.items[i].author = commits[i].author
            /\ list.items[i].date = commits[i].date
            /\ list.items[i].message = commits[i].message

\* #fileTree shows the files: one file row each and no other file row.
ShowsFiles(tree, files) ==
  IF files = <<>> THEN tree.kind = "empty-state"
  ELSE /\ tree.kind = "items"
       /\ FileRowsOf(files, tree.items)
       /\ Cardinality({ j \in 1..Len(tree.items) : tree.items[j].type = "file" }) = Len(files)

\* No request of the kind is waiting for its handler.
NoneOutstanding(command) == \A k \in 1..Len(sent) : sent[k].command # command

-----------------------------------------------------------------------------
(* Reload *)

\* C15: a reload with a saved state gives main.js the saved baseBranch,
\* targetBranch, branches, diffFiles, commits, totalStats and expanded
\* folders as its state, and leaves the saved state as it was.
C15_ReloadRestoresSaved ==
  [][(Reload /\ saved # <<>>) =>
       /\ state'.baseBranch = saved[1].baseBranch
       /\ state'.targetBranch = saved[1].targetBranch
       /\ state'.branches = saved[1].branches
       /\ state'.diffFiles = saved[1].diffFiles
       /\ state'.commits = saved[1].commits
       /\ state'.totalStats = saved[1].totalStats
       /\ state'.expandedFolders = saved[1].expandedFolders
       /\ saved' = saved]_vars


-----------------------------------------------------------------------------
(* A click on a folder *)

Members(q) == { q[k] : k \in 1..Len(q) }

\* C16: a click on a folder row puts the folder's path into expandedFolders
\* when it was not there and takes it out when it was, saves the state with
\* that set, sends nothing, and leaves baseBranch, targetBranch, diffFiles
\* and commits as they were.
C16_FolderClickTogglesOnly ==
  [][\A i \in 1..Len(dom.fileTree.items) :
       (dom.fileTree.items[i].type = "folder" /\ ClickTreeItem(i)) =>
         LET path == dom.fileTree.items[i].path
             before == Members(state.expandedFolders)
             after == Members(state'.expandedFolders)
         IN /\ after = IF path \in before THEN before \ {path} ELSE before \cup {path}
            /\ Len(state'.expandedFolders) = Cardinality(after)
            /\ saved' # <<>>
            /\ Members(saved'[1].expandedFolders) = after
            /\ sent' = sent
            /\ state'.baseBranch = state.baseBranch
            /\ state'.targetBranch = state.targetBranch
            /\ state'.diffFiles = state.diffFiles
            /\ state'.commits = state.commits
            /\ saved'[1].baseBranch = state.baseBranch
            /\ saved'[1].targetBranch = state.targetBranch
            /\ saved'[1].diffFiles = state.diffFiles
            /\ saved'[1].commits = state.commits]_vars

\* Witness for C16: the user has clicked a folder, which is now collapsed
\* and out of expandedFolders while another folder is still in it.
C16_FolderCollapsed ==
  /\ events > 0
  /\ dom.fileTree.kind = "items"
  /\ \E j \in 1..Len(dom.fileTree.items) :
       /\ dom.fileTree.items[j].type = "folder"
       /\ ~dom.fileTree.items[j].expanded
       /\ dom.fileTree.items[j].path \notin Members(state.expandedFolders)
  /\ state.expandedFolders # <<>>
  /\ saved # <<>> /\ saved[1].expandedFolders = state.expandedFolders


-----------------------------------------------------------------------------
(* The commit search *)

\* Two characters are the same letter in upper or lower case, or the same
\* character.
SameIgnoringCase(a, b) ==
  \/ a = b
  \/ \E n \in 1..26 : {a, b} = {UpperCase[n], LowerCase[n]}

\* q occurs in t when the case of letters is ignored.
ContainsIgnoringCase(t, q) ==
  \E k \in 0..(Len(t) - Len(q)) :
    \A j \in 1..Len(q) : SameIgnoringCase(t[k + j], q[j])

Found(c, q) ==
  \/ ContainsIgnoringCase(c.message, q)
  \/ ContainsIgnoringCase(c.author, q)
  \/ ContainsIgnoringCase(c.shortHash, q)

\* C17: when the user edits the search box, no request is sent, the state
\* and so state.commits stay as they were, and the list shows exactly the
\* commits of state.commits, in order, whose message, author or short hash
\* contains the text of the box, the case of letters ignored.
C17_SearchIsLocalFilter ==
  [][(\E q \in SearchTexts : TypeSearch(q)) =>
       /\ sent' = sent
       /\ state' = state
       /\ saved' = saved
       /\ ShowsCommits(dom'.commitList,
                       SelectSeq(state.commits, LAMBDA c : Found(c, dom'.commitSearch)))]_vars

\* Witness for C17: the search box holds a text that some of the commits
\* contain and others do not, and the list shows fewer commits than
\* state.commits has.
C17_SomeCommitsFiltered ==
  /\ events > 0
  /\ dom.commitSearch # <<>>
  /\ dom.commitList.kind = "items"
  /\ Len(dom.commitList.items) < Len(state.commits)
  /\ \E k \in 1..Len(state.commits) : ~Found(state.commits[k], dom.commitSearch)


\* C20: whenever the commit list shows commits or its empty state, they are
\* the commits of state.commits that contain the text of the search box;
\* so a 'commits' response that arrives while the box holds a text is shown
\* filtered by it.
C20_ListIsFilteredCommits ==
  dom.commitList.kind \in {"items", "empty-state"} =>
    ShowsCommits(dom.commitList,
                 SelectSeq(state.commits, LAMBDA c : Found(c, dom.commitSearch)))


-----------------------------------------------------------------------------
(* The open-file button *)

\* C21: a click on the open-file button of a file row sends one message,
\* openFile with the row's path and the target branch, and no openDiff.
C21_OpenFileOnly ==
  [][\A i \in 1..Len(dom.fileTree.items) :
       ClickOpenFile(i) =>
         sent' = Append(sent, [command |-> "openFile",
                               filePath |-> dom.fileTree.items[i].path,
                               targetBranch |-> state.targetBranch])]_vars


-----------------------------------------------------------------------------
(* Collapsed folders and later responses *)

\* The rows of the tree that are folders.
FolderRows == { j \in 1..Len(dom.fileTree.items) : dom.fileTree.items[j].type = "folder" }

\* The tree shows folders and none of them is expanded: the user has
\* collapsed every folder, since a render with no expanded folder expands
\* them all.
CollapsedEveryFolder ==
  /\ dom.fileTree.kind = "items"
  /\ FolderRows # {}
  /\ state.expandedFolders = <<>>

\* The next message to reach the page is a 'diff' response.
DeliversDiff == Deliver /\ Head(posted).command = "diff"

\* C22: when a 'diff' response is rendered, a folder the tree showed
\* collapsed is not put into expandedFolders, and when the user has
\* collapsed every folder expandedFolders stays empty.
C22_CollapsedStaysCollapsed ==
  [][DeliversDiff =>
       /\ dom.fileTree.kind = "items" =>
            \A j \in FolderRows :
              ~dom.fileTree.items[j].expanded =>
                dom.fileTree.items[j].path \notin Members(state'.expandedFolders)
       /\ CollapsedEveryFolder => state'.expandedFolders = <<>>]_vars

====
